---- MODULE Spec2Model ----
(***************************************************************************)
(* filewatch: a directory monitor (Start, Scan) that dispatches one Watch  *)
(* goroutine per matching file, and the Watch goroutine itself, which      *)
(* reads appended lines with a bufio.Scanner, batches them, hands the      *)
(* batches to ResChan and persists a cursor.                               *)
(*                                                                         *)
(* Four specifications share the variables:                                *)
(*   Spec         the monitor: Start(), Scan(), the event loop, and the    *)
(*                number of Watch goroutines alive per path;               *)
(*   SpecHarvest  one file: its writer, one Watch goroutine with its       *)
(*                watchFileEvent listener, and the consumer of ResChan;    *)
(*   SpecRestart  SpecHarvest with a process stop during the Watch,        *)
(*                followed by a second Watch of the same file;             *)
(*   SpecBackPressure  the monitor and the Watch it starts, with nobody    *)
(*                receiving from ResChan.                                  *)
(*                                                                         *)
(* Time is abstracted: a ticker may fire whenever its goroutine waits on   *)
(* it.  Files are append-only byte sequences over {"x", "\n"}; lines are   *)
(* shorter than bufio.MaxScanTokenSize and hold no carriage return.        *)
(***************************************************************************)
EXTENDS Naturals, Integers, Sequences, FiniteSets, TLC

\* ---------------------------------------------------------------- bounds
\* Longest file the writer produces.
MaxFileLen == 4
\* maxBatchCnt (filewatch.go:258 sets 1000), scaled.
MaxBatchCnt == 2
\* bufio's startBufSize (4096), scaled: the Scanner's first buffer.
StartBufSize == 3

NL == "\n"
Byte == {"x", NL}
\* completeMarker (SetCompleteMarker); the default is "LOG_COMPLETE".
completeMarker == <<"x", "x">>
\* A file that does not exist (no content is this sequence).
NoFile == <<"NoFile">>

Min(a, b) == IF a <= b THEN a ELSE b

\* ------------------------------------------------------------ CursorStore
Digits == <<"0", "1", "2", "3", "4", "5", "6", "7", "8", "9">>
IsDigit(c) == \E i \in 1..10 : Digits[i] = c
DigitVal(c) == (CHOOSE i \in 1..10 : Digits[i] = c) - 1

RECURSIVE DecValue(_)
DecValue(s) ==
  IF s = <<>> THEN 0
  ELSE 10 * DecValue(SubSeq(s, 1, Len(s) - 1)) + DigitVal(s[Len(s)])

\* fmt.Sprintf("%d", offset) for offset >= 0.
RECURSIVE FormatInt(_)
FormatInt(n) ==
  IF n < 10 THEN <<Digits[n + 1]>>
  ELSE FormatInt(n \div 10) \o <<Digits[(n % 10) + 1]>>

\* strconv.ParseInt(s, 10, 64): an optional sign, then digits only.  A
\* syntax error yields 0 (readCursor's caller drops the error).
ParseInt(s) ==
  LET signed == s # <<>> /\ s[1] \in {"+", "-"}
      body   == IF signed THEN Tail(s) ELSE s
  IN  IF body = <<>> \/ \E i \in 1..Len(body) : ~IsDigit(body[i]) THEN 0
      ELSE IF signed /\ s[1] = "-" THEN 0 - DecValue(body)
      ELSE DecValue(body)

\* A Watch that ignores the cursor file.
readCursorZero(c) == 0

\* readCursor: os.ReadFile fails on a missing file (0, err).
readCursor(c) == IF c = NoFile THEN 0 ELSE ParseInt(c)

\* saveCursor: Seek(0) then WriteString on a handle opened without O_TRUNC:
\* the digits overwrite the head of the content, the rest stays.
saveCursor(c, off) ==
  LET d   == FormatInt(off)
      old == IF c = NoFile THEN <<>> ELSE c
  IN  d \o SubSeq(old, Len(d) + 1, Len(old))

\* ---------------------------------------------------------- bufio.Scanner
\* A Scanner over the file handle: buf[start:end] holds the bytes of the
\* file just before the handle's position pos; len is len(buf); eof is
\* s.err = io.EOF.
NewScanner(pos) == [start |-> 0, end |-> 0, len |-> 0, eof |-> FALSE, pos |-> pos]

Buffered(s, f) == SubSeq(f, s.pos - (s.end - s.start) + 1, s.pos)

\* bufio.ScanLines on data: the index of the first newline, 0 when none.
FirstNL(data) ==
  IF \E i \in 1..Len(data) : data[i] = NL
  THEN CHOOSE i \in 1..Len(data) : data[i] = NL /\ \A j \in 1..(i - 1) : data[j] # NL
  ELSE 0

\* Scanner.Scan(): [ok, token, s].  A token is a line without its newline,
\* or at EOF the unterminated rest of the data.
RECURSIVE ScannerScan(_, _)
ScannerScan(s, f) ==
  LET data == Buffered(s, f)
      i    == FirstNL(data)
  IN  IF (s.end > s.start \/ s.eof) /\ i > 0
      THEN [ok |-> TRUE, token |-> SubSeq(data, 1, i - 1),
            s |-> [s EXCEPT !.start = @ + i]]
      ELSE IF s.eof /\ Len(data) > 0
      THEN [ok |-> TRUE, token |-> data, s |-> [s EXCEPT !.start = s.end]]
      ELSE IF s.eof
      THEN [ok |-> FALSE, token |-> <<>>, s |-> [s EXCEPT !.start = 0, !.end = 0]]
      ELSE
        LET shift == s.start > 0 /\ (s.end = s.len \/ s.start > s.len \div 2)
            t     == IF shift THEN [s EXCEPT !.start = 0, !.end = s.end - s.start] ELSE s
        IN  IF t.end = t.len
            THEN ScannerScan([t EXCEPT !.len = IF t.len = 0 THEN StartBufSize ELSE 2 * t.len], f)
            ELSE
              LET avail == IF Len(f) > t.pos THEN Len(f) - t.pos ELSE 0
                  n     == Min(avail, t.len - t.end)
              IN  IF n = 0
                  THEN ScannerScan([t EXCEPT !.eof = TRUE], f)
                  ELSE ScannerScan([t EXCEPT !.end = @ + n, !.pos = @ + n], f)

\* ------------------------------------------------------------------ state
VARIABLES
  \* the monitor (FileWatcher.Start, FileWatcher.Scan)
  watching,             \* FileWatcher.watching
  starts,               \* Start() invocations: pc, err, swapped, watcher state
  scans,                \* Scan() invocations: pc, entries left to visit
  entries,              \* paths that exist under dirPath
  tasks,                \* Watch goroutines alive, per path
  \* one harvested file
  file,                 \* its bytes
  fileExists,
  cursor,               \* content of its .cursor file, or NoFile
  removeAfterComplete,  \* FileWatcher.removeAfterComplete
  \* the Watch goroutine of the file
  hpc,                  \* where it is
  sc,                   \* the file handle's position and the bufio.Scanner
  offset,
  store,                \* batchLog's backing array
  blen,                 \* batchLog.Len()
  batchCnt,
  eofLine,              \* eof of the line just read
  longTimeNoUpdate,
  scanChan,
  \* its watchFileEvent goroutine
  lpc,                  \* where it is; a "false..." value: at a scanChan <- false
  synth,                \* the injected "Read Now" event is still to be received
  fev,                  \* events its fsnotify watcher holds
  \* the consumer of ResChan and the history the properties read
  received,             \* records received, with where their lines lie in the file
  run,                  \* Watch goroutines started so far for the file
  hist                  \* history of the current Watch (see HistInit)

monVars  == <<watching, starts, scans, entries, tasks>>
fsVars   == <<file, fileExists, cursor>>
taskVars == <<hpc, sc, offset, store, blen, batchCnt, eofLine, longTimeNoUpdate, scanChan>>
lisVars  == <<lpc, synth, fev>>
harvVars == <<fsVars, removeAfterComplete, taskVars, lisVars, received, run, hist>>
vars     == <<monVars, harvVars>>

\* hist: start1     start offset of the first Watch of the file
\*       startOff   start offset of the current Watch
\*       cur0       the cursor file as the current Watch found it
\*       appended   the file grew since the current Watch opened it
\*       batchFrom  file offset of the first line held in batchLog
\*       lineEnd    file offset just after the last line the Scanner returned
\*       lastSaved  last offset this Watch wrote to the cursor file, -1 if none
\*       sentinel   this Watch read a line equal to completeMarker
\*       removeFailed  an os.Remove of this Watch failed
\*       stalled    the listener put its false on scanChan at line 378
HistInit ==
  [start1 |-> -1, startOff |-> -1, cur0 |-> NoFile, appended |-> FALSE,
   batchFrom |-> 0, lineEnd |-> 0, lastSaved |-> -1, sentinel |-> FALSE,
   removeFailed |-> FALSE, stalled |-> FALSE]

\* batchLog.Bytes(): a slice of the backing array, not a copy.
batchLog == SubSeq(store, 1, blen)

\* batchLog.Write(p): the bytes go into the backing array after the first
\* blen bytes; what lay there before is overwritten.  (The array holds 1 MiB
\* and is not reallocated within the bounds.)
Write(st, n, p) ==
  SubSeq(st, 1, n) \o p \o SubSeq(st, n + Len(p) + 1, Len(st))

\* The cursor file a first Watch may find: none, one that is no number (a
\* 0 followed by a newline, as an editor or echo leaves it), a negative one,
\* an offset inside the file, one left by a longer file.
InitCursors == {NoFile, <<"0", NL>>, <<"-", "1">>, <<"2">>, <<"1", "2">>}

HarvInit ==
  /\ file = <<>>
  /\ fileExists = TRUE
  /\ cursor \in InitCursors
  /\ removeAfterComplete \in BOOLEAN
  /\ hpc = "idle"
  /\ sc = NewScanner(0)
  /\ offset = 0
  /\ store = <<>>
  /\ blen = 0
  /\ batchCnt = 0
  /\ eofLine = FALSE
  /\ longTimeNoUpdate = FALSE
  /\ scanChan = <<>>
  /\ lpc = "idle"
  /\ synth = FALSE
  /\ fev = <<>>
  /\ received = <<>>
  /\ run = 0
  /\ hist = HistInit

\* The listener at one of its scanChan <- false: lines 337, 369, 374, 378.
SendsFalse == {"falseInit", "falseRemove", "falseError", "falseTimeout"}
\* The listener's fsnotify watcher is open and has the file registered.
Watching == {"loop"} \cup (SendsFalse \ {"falseInit"})

\* ------------------------------------------------------------- the writer
\* The writer appends one byte per write: every split of a line across
\* writes is some run of these.  A registered fsnotify watcher gets a Write
\* event; an event equal to the one already waiting is coalesced.
FileEvent(q, e) == IF q # <<>> /\ q[Len(q)] = e THEN q ELSE Append(q, e)

WriterAppend(b) ==
  /\ fileExists
  /\ Len(file) < MaxFileLen
  /\ file' = Append(file, b)
  /\ fev' = IF lpc \in Watching THEN FileEvent(fev, "Write") ELSE fev
  /\ hist' = [hist EXCEPT !.appended = (hpc # "idle") \/ @]
  /\ UNCHANGED <<monVars, fileExists, cursor, removeAfterComplete, taskVars,
                 lpc, synth, received, run>>

\* ------------------------------------------------------- FileWatcher.Watch
\* Lines 215-251: open the file, read the cursor, seek, open the cursor file
\* (O_CREATE, no O_TRUNC), stat, start watchFileEvent.  old: the file's
\* modification time lies further back than maxNoUpdateTime.
WatchOpen(old) ==
  /\ hpc = "idle"
  /\ run' = run + 1
  /\ LET off == readCursor(cursor)
     IN  IF ~fileExists \/ off < 0
         THEN /\ hpc' = "failed"
              /\ UNCHANGED <<cursor, sc, offset, longTimeNoUpdate, lpc, hist>>
         ELSE /\ hpc' = "select"
              /\ offset' = off
              /\ sc' = NewScanner(off)
              /\ cursor' = IF cursor = NoFile THEN <<>> ELSE cursor
              /\ longTimeNoUpdate' = old
              /\ lpc' = "init"
              /\ hist' = [hist EXCEPT !.start1 = IF run = 0 THEN off ELSE @,
                                      !.startOff = off, !.cur0 = cursor,
                                      !.appended = FALSE,
                                      !.batchFrom = off, !.lineEnd = off,
                                      !.lastSaved = -1, !.sentinel = FALSE,
                                      !.removeFailed = FALSE, !.stalled = FALSE]
  /\ UNCHANGED <<monVars, file, fileExists, removeAfterComplete, store, blen,
                 batchCnt, eofLine, scanChan, synth, fev, received>>

\* Lines 263-267: a signal arrives on scanChan; false ends the Watch, true
\* starts a scan with a new Scanner on the file handle.
WatchSignal ==
  /\ hpc = "select"
  /\ scanChan # <<>>
  /\ scanChan' = Tail(scanChan)
  /\ IF Head(scanChan)
     THEN /\ hpc' = "scan"
          /\ sc' = NewScanner(sc.pos)
     ELSE /\ hpc' = "done"
          /\ UNCHANGED sc
  /\ UNCHANGED <<monVars, fsVars, removeAfterComplete, offset, store, blen,
                 batchCnt, eofLine, longTimeNoUpdate, lisVars, received, run, hist>>

\* Lines 268-277 and 304: one turn of the scan loop, up to the send on
\* ResChan or to the end of the turn; when Scan() returns false the Scanner
\* is dropped and only the file handle's position stays.  offset is the file handle's position, which is
\* where the Scanner has read to.
ScanOffset(s) == s.pos

EofOf(line) == line = completeMarker

FlushDue(eof, cnt) == eof \/ cnt >= MaxBatchCnt

WatchScanLine ==
  /\ hpc = "scan"
  /\ LET r == ScannerScan(sc, file)
     IN  /\ IF ~r.ok
            THEN /\ hpc' = "select"
                 /\ sc' = NewScanner(r.s.pos)
                 /\ UNCHANGED <<offset, store, blen, batchCnt, eofLine, hist>>
            ELSE LET line == Append(r.token, NL)
                     eof  == EofOf(r.token)
                 IN  /\ sc' = r.s
                     /\ batchCnt' = batchCnt + 1
                     /\ offset' = ScanOffset(r.s)
                     /\ eofLine' = eof
                     /\ store' = Write(store, blen, line)
                     /\ blen' = blen + Len(line)
                     /\ hist' = [hist EXCEPT
                                   !.batchFrom = IF blen = 0 THEN hist.lineEnd ELSE @,
                                   !.lineEnd = r.s.pos - (r.s.end - r.s.start),
                                   !.sentinel = eof \/ @]
                     /\ hpc' = IF FlushDue(eof, batchCnt + 1) THEN "sendScan" ELSE "scan"
  /\ UNCHANGED <<monVars, fsVars, removeAfterComplete, longTimeNoUpdate, scanChan,
                 lisVars, received, run>>

\* The record a send hands over: Content is batchLog.Bytes(), that is the
\* first n bytes of the backing array; sent, from, to and run are history.
Record(eof) ==
  [n |-> blen, EOF |-> eof, sent |-> batchLog,
   from |-> hist.batchFrom, to |-> hist.lineEnd, run |-> run]

\* Lines 278-281 and 309-311: the consumer receives the record (ResChan is
\* unbuffered), then batchLog.Reset() and batchCnt = 0.
WatchSend ==
  /\ hpc \in {"sendScan", "sendTimer"}
  /\ received' = Append(received, Record(hpc = "sendScan" /\ eofLine))
  /\ blen' = 0
  /\ batchCnt' = 0
  /\ hpc' = IF hpc = "sendScan" THEN "saveScan" ELSE "saveTimer"
  /\ UNCHANGED <<monVars, fsVars, removeAfterComplete, sc, offset, store, eofLine,
                 longTimeNoUpdate, scanChan, lisVars, run, hist>>

\* Lines 284-289 and 314-319: saveCursor(cursorFW, offset); ok is whether
\* the write succeeded.  After a scan flush the loop goes on to the eof
\* test; after a timer flush a failed write skips the rest of the case.
WatchSaveCursor(ok) ==
  /\ hpc \in {"saveScan", "saveTimer"}
  /\ IF ok
     THEN /\ cursor' = saveCursor(cursor, offset)
          /\ hist' = [hist EXCEPT !.lastSaved = offset]
     ELSE UNCHANGED <<cursor, hist>>
  /\ hpc' = IF hpc = "saveScan"
            THEN (IF eofLine THEN "cleanup" ELSE "scan")
            ELSE (IF ok /\ longTimeNoUpdate THEN "done" ELSE "select")
  /\ UNCHANGED <<monVars, file, fileExists, removeAfterComplete, sc, offset, store,
                 blen, batchCnt, eofLine, longTimeNoUpdate, scanChan, lisVars,
                 received, run>>

\* Lines 290-302: after the sentinel's flush the file and the cursor file
\* are removed, whatever removeAfterComplete says; a failed os.Remove ends
\* the Watch at once.  out: "ok", "fileFails" or "cursorFails".
Cleanup(out) ==
  [file   |-> out # "fileFails",
   cursor |-> out = "ok"]

WatchCleanup(out) ==
  /\ hpc = "cleanup"
  /\ LET c == Cleanup(IF fileExists THEN out ELSE "fileFails")
     IN  /\ fileExists' = IF c.file THEN FALSE ELSE fileExists
         /\ cursor' = IF c.cursor THEN NoFile ELSE cursor
         /\ hist' = [hist EXCEPT !.removeFailed = ~(c.file /\ c.cursor)]
         /\ fev' = IF c.file /\ fileExists /\ lpc \in Watching
                   THEN FileEvent(fev, "Remove") ELSE fev
  /\ hpc' = "done"
  /\ UNCHANGED <<monVars, file, removeAfterComplete, sc, offset, store, blen,
                 batchCnt, eofLine, longTimeNoUpdate, scanChan, lpc, synth,
                 received, run>>

\* A tick that sends whatever the batch holds, an empty one as well.
BatchPendingAlways(n) == TRUE

\* Line 308: batchLog.Len() > 0
BatchPending(n) == n > 0

\* Lines 307-326: sendTimer fires while the Watch waits in the select.
WatchTick ==
  /\ hpc = "select"
  /\ hpc' = IF BatchPending(blen) THEN "sendTimer"
            ELSE IF longTimeNoUpdate THEN "done" ELSE "select"
  /\ UNCHANGED <<monVars, fsVars, removeAfterComplete, sc, offset, store, blen,
                 batchCnt, eofLine, longTimeNoUpdate, scanChan, lisVars,
                 received, run, hist>>

\* ------------------------------------------------ FileWatcher.watchFileEvent
\* Lines 334-346: fsnotify.NewWatcher (ok: it succeeded), watcher.Add, and
\* the goroutine that injects one Write event.
ListenerInit(ok) ==
  /\ lpc = "init"
  /\ IF ok
     THEN /\ lpc' = "loop"
          /\ synth' = TRUE
     ELSE /\ lpc' = "falseInit"
          /\ UNCHANGED synth
  /\ UNCHANGED <<monVars, fsVars, removeAfterComplete, taskVars, fev, received, run, hist>>

\* A listener that drops every Write event.
SignalScanNever(ch) == ch

\* Lines 361-366: a Write event puts true on scanChan unless two signals
\* already wait there.
SignalScan(ch) == IF Len(ch) <= 1 THEN Append(ch, TRUE) ELSE ch

\* Lines 354-371: the next event of the watcher; injected selects the
\* injected Write event.
ListenerEvent(injected) ==
  /\ lpc = "loop"
  /\ IF injected THEN synth ELSE fev # <<>>
  /\ LET e == IF injected THEN "Write" ELSE Head(fev)
     IN  /\ synth' = IF injected THEN FALSE ELSE synth
         /\ fev' = IF injected THEN fev ELSE Tail(fev)
         /\ IF e = "Write"
            THEN /\ scanChan' = SignalScan(scanChan)
                 /\ UNCHANGED lpc
            ELSE /\ lpc' = "falseRemove"
                 /\ UNCHANGED scanChan
  /\ UNCHANGED <<monVars, fsVars, removeAfterComplete, hpc, sc, offset, store, blen,
                 batchCnt, eofLine, longTimeNoUpdate, received, run, hist>>

\* Lines 372-375: the watcher reports an error.
ListenerError ==
  /\ lpc = "loop"
  /\ lpc' = "falseError"
  /\ UNCHANGED <<monVars, fsVars, removeAfterComplete, taskVars, synth, fev,
                 received, run, hist>>

\* Lines 376-379: no Write event for w.maxNoUpdateTime.
ListenerTimeout ==
  /\ lpc = "loop"
  /\ lpc' = "falseTimeout"
  /\ UNCHANGED <<monVars, fsVars, removeAfterComplete, taskVars, synth, fev,
                 received, run, hist>>

\* scanChan <- false, which blocks while scanChan is full; then the
\* goroutine returns and its watcher is closed.
ListenerSendFalse ==
  /\ lpc \in SendsFalse
  /\ Len(scanChan) < 2
  /\ scanChan' = Append(scanChan, FALSE)
  /\ lpc' = "done"
  /\ hist' = [hist EXCEPT !.stalled = (lpc = "falseTimeout")]
  /\ UNCHANGED <<monVars, fsVars, removeAfterComplete, hpc, sc, offset, store, blen,
                 batchCnt, eofLine, longTimeNoUpdate, synth, fev, received, run>>

\* ------------------------------------------------------------ process stop
\* The process stops at any point of the first harvest: every goroutine and
\* all memory is gone, the file and the cursor file stay, and the file is
\* harvested again by a second Watch.  The records already received stay in
\* the history.
ProcessStop ==
  /\ hpc # "idle"
  /\ run = 1
  /\ hpc' = "idle"
  /\ sc' = NewScanner(0)
  /\ offset' = 0
  /\ store' = <<>>
  /\ blen' = 0
  /\ batchCnt' = 0
  /\ eofLine' = FALSE
  /\ longTimeNoUpdate' = FALSE
  /\ scanChan' = <<>>
  /\ lpc' = "idle"
  /\ synth' = FALSE
  /\ fev' = <<>>
  /\ UNCHANGED <<monVars, fsVars, removeAfterComplete, received, run, hist>>

NextHarvest ==
  \/ \E b \in Byte : WriterAppend(b)
  \/ \E old \in BOOLEAN : WatchOpen(old)
  \/ WatchSignal
  \/ WatchScanLine
  \/ WatchSend
  \/ \E ok \in BOOLEAN : WatchSaveCursor(ok)
  \/ \E out \in {"ok", "fileFails", "cursorFails"} : WatchCleanup(out)
  \/ WatchTick
  \/ \E ok \in BOOLEAN : ListenerInit(ok)
  \/ \E injected \in BOOLEAN : ListenerEvent(injected)
  \/ ListenerError
  \/ ListenerTimeout
  \/ ListenerSendFalse

NextRestart ==
  \/ NextHarvest
  \/ ProcessStop

\* ================================================================ monitor
\* dirPath holds these entries at most: a file the pattern matches, a file
\* it does not match, a cursor file, and a subdirectory.
Paths == {"a.log", "b.txt", "a.cursor", "sub"}
IsDir(p) == p = "sub"
\* strings.HasSuffix(path, CursorFileSuffix)
IsCursor(p) == p = "a.cursor"
\* regexp.MustCompile(w.fileRegexp).FindStringSubmatch(path) is not empty.
\* The pattern is searched for in the whole path (the default ".+.log" is
\* found in /var/logs/a.cursor), so it may match a cursor file or a
\* directory as well.
Matches(p) == p \in {"a.log", "a.cursor", "sub"}

\* Start() calls the callers make, Scan() calls the callers make, and
\* events an fsnotify watcher holds unread.
MaxStartCalls == 2
MaxScanCalls == 1
MaxEvents == 1
\* Entries dirPath holds at a time.
MaxEntries == 1

\* An error value: what went wrong (cause) and whether fmt.Errorf wrapped it.
Nil == [wrapped |-> FALSE, cause |-> "nil"]
\* fmt.Errorf("...: %w", cause): a new error value that wraps the cause.
Errorf(cause) == [wrapped |-> TRUE, cause |-> cause]
\* err == fsnotify.ErrEventOverflow compares the error values themselves.
IsErrEventOverflow(err) == err = [wrapped |-> FALSE, cause |-> "overflow"]

\* atomic.CompareAndSwapInt64(&w.watching, old, new)
CompareAndSwapInt64(v, old, new) ==
  IF v = old THEN [swapped |-> TRUE, v |-> new] ELSE [swapped |-> FALSE, v |-> v]

\* The guard as a plain store: the flag is set whatever it was.
GuardNoCompare(v) == [swapped |-> TRUE, v |-> 1]

\* Line 95: the guard of Start().
Guard(v) == CompareAndSwapInt64(v, 0, 1)

\* The reset with its arguments exchanged: a flag of 1 is left as it is.
ResetFlagExchanged(v) == CompareAndSwapInt64(v, 0, 1)

\* Lines 107-110: the deferred reset of the flag.
ResetFlag(v) == CompareAndSwapInt64(v, 1, 0)

\* An invocation of Start() that holds the single-flight flag: past the
\* guard and before its deferred reset.
HoldsFlag(st) == st.passed /\ st.pc \in {"setup", "loop", "defer"}
PastGuard(st) == st.passed /\ st.pc \in {"setup", "loop"}

\* A new invocation of Scan(); direct: a caller made it (Start() did not);
\* later: an earlier Scan() had returned when it was made; visited: entries
\* its walk function was called for.
NewScan(direct, later) ==
  [pc |-> "readDir", todo |-> {}, nspawn |-> 0, visited |-> 0,
   direct |-> direct, later |-> later]

ScanReturned == \E j \in 1..Len(scans) : scans[j].pc = "done"

\* go w.Watch(path)
Spawn(t, p) == [t EXCEPT ![p] = @ + 1]

\* Lines 94-100: the guard, and for the invocation that passes it go w.Scan().
\* held records whether another invocation held the flag at the call,
\* handled the Create events its loop has taken.
StartCall ==
  /\ Len(starts) < MaxStartCalls
  /\ LET cas == Guard(watching)
         held == \E i \in 1..Len(starts) : HoldsFlag(starts[i])
     IN  /\ watching' = cas.v
         /\ IF cas.swapped
            THEN /\ starts' = Append(starts,
                      [pc |-> "setup", passed |-> TRUE, held |-> held, err |-> Nil,
                       swapped |-> FALSE, made |-> FALSE, scan |-> Len(scans) + 1,
                       reg |-> {}, q |-> <<>>, handled |-> 0])
                 /\ scans' = Append(scans, NewScan(FALSE, ScanReturned))
            ELSE /\ starts' = Append(starts,
                      [pc |-> "returned", passed |-> FALSE, held |-> held, err |-> Nil,
                       swapped |-> FALSE, made |-> FALSE, scan |-> 0,
                       reg |-> {}, q |-> <<>>, handled |-> 0])
                 /\ UNCHANGED scans
  /\ UNCHANGED <<entries, tasks, harvVars>>

\* The error Start() returns from its setup: res is "create"
\* (fsnotify.NewWatcher fails, line 115), "add" (watcher.Add(w.dirPath)
\* fails, line 121), "walk" (the walk reports an error, returned as it is,
\* lines 125 and 135) or "addSub" (watcher.Add of a directory fails, line
\* 130).
SetupErr(res) ==
  IF res = "walk" THEN [wrapped |-> FALSE, cause |-> "other"]
  ELSE Errorf("other")

\* Lines 113-136: fsnotify.NewWatcher(), watcher.Add(w.dirPath) and the walk
\* that registers every directory; res is "ok" or names the step that fails.
StartSetup(i, res) ==
  /\ starts[i].pc = "setup"
  /\ starts' = [starts EXCEPT ![i] =
        IF res = "ok"
        THEN [@ EXCEPT !.pc = "loop", !.made = TRUE,
                       !.reg = {"."} \cup {p \in entries : IsDir(p)}]
        ELSE [@ EXCEPT !.pc = "defer", !.made = (res # "create"), !.err = SetupErr(res)]]
  /\ UNCHANGED <<watching, scans, entries, tasks, harvVars>>

\* Lines 140-169: one event of the loop.  Only a Create event of a file the
\* pattern matches starts a Watch.
Dispatches(e) ==
  /\ ~IsCursor(e.name)
  /\ e.op = "Create"
  /\ ~IsDir(e.name)
  /\ Matches(e.name)

StartEvent(i) ==
  /\ starts[i].pc = "loop"
  /\ starts[i].q # <<>>
  /\ LET e == Head(starts[i].q)
     IN  /\ starts' = [starts EXCEPT ![i] =
               [@ EXCEPT !.q = Tail(@),
                         !.handled = IF e.op = "Create" THEN @ + 1 ELSE @,
                         !.reg = IF IsCursor(e.name) THEN @ \ {e.name}
                                 ELSE IF e.op # "Create" THEN @
                                 ELSE IF IsDir(e.name) THEN @ \cup {e.name}
                                 ELSE IF ~Matches(e.name) THEN @ \ {e.name}
                                 ELSE @]]
         /\ tasks' = IF Dispatches(e) THEN Spawn(tasks, e.name) ELSE tasks
  /\ UNCHANGED <<watching, scans, entries, harvVars>>

\* Lines 170-171: the watcher reports an error (cause: "overflow" for
\* fsnotify.ErrEventOverflow, "other"), which Start() wraps and returns.
StartError(i, cause) ==
  /\ starts[i].pc = "loop"
  /\ starts' = [starts EXCEPT ![i] =
        [@ EXCEPT !.pc = "defer", !.err = Errorf(cause)]]
  /\ UNCHANGED <<watching, scans, entries, tasks, harvVars>>

\* Lines 107-110 (and 117): on the way out the watcher is closed and the
\* deferred CompareAndSwap resets the flag.
StartReset(i) ==
  /\ starts[i].pc = "defer"
  /\ LET cas == ResetFlag(watching)
     IN  /\ watching' = cas.v
         /\ starts' = [starts EXCEPT ![i] =
               [@ EXCEPT !.pc = "deferOverflow", !.swapped = cas.swapped,
                         !.reg = {}, !.q = <<>>]]
  /\ UNCHANGED <<scans, entries, tasks, harvVars>>

\* Lines 101-105: the first deferred function runs last: go w.Start() when
\* err is fsnotify.ErrEventOverflow itself; then Start() returns err.
StartReturn(i) ==
  /\ starts[i].pc = "deferOverflow"
  /\ LET again == IsErrEventOverflow(starts[i].err) /\ Len(starts) < MaxStartCalls
         cas   == Guard(watching)
         held  == \E j \in 1..Len(starts) : HoldsFlag(starts[j])
         me    == [starts EXCEPT ![i] = [@ EXCEPT !.pc = "returned"]]
     IN  IF ~again
         THEN /\ starts' = me
              /\ UNCHANGED <<watching, scans>>
         ELSE /\ watching' = cas.v
              /\ starts' = Append(me,
                    [pc |-> IF cas.swapped THEN "setup" ELSE "returned",
                     passed |-> cas.swapped, held |-> held, err |-> Nil,
                     swapped |-> FALSE, made |-> FALSE,
                     scan |-> IF cas.swapped THEN Len(scans) + 1 ELSE 0,
                     reg |-> {}, q |-> <<>>, handled |-> 0])
              /\ scans' = IF cas.swapped THEN Append(scans, NewScan(FALSE, ScanReturned)) ELSE scans
  /\ UNCHANGED <<entries, tasks, harvVars>>

\* A caller calls Scan().
ScanCall ==
  /\ Cardinality({i \in 1..Len(scans) : scans[i].direct}) < MaxScanCalls
  /\ scans' = Append(scans, NewScan(TRUE, ScanReturned))
  /\ UNCHANGED <<watching, starts, entries, tasks, harvVars>>

\* Line 179: filepath.Walk reads the directory.
ScanReadDir(i) ==
  /\ scans[i].pc = "readDir"
  /\ scans' = [scans EXCEPT ![i] = [@ EXCEPT !.pc = "visit", !.todo = entries]]
  /\ UNCHANGED <<watching, starts, entries, tasks, harvVars>>

\* A walk function that takes cursor files for harvestable.
ScanWatchesCursors(p) == ~IsDir(p) /\ Matches(p)

\* Lines 185-200: the walk function on one entry.
ScanWatches(p) ==
  /\ ~IsCursor(p)
  /\ ~IsDir(p)
  /\ Matches(p)

\* filepath.Walk visits the entries in lexical order.
WalkOrder == <<"a.cursor", "a.log", "b.txt", "sub">>
NextEntry(todo) ==
  WalkOrder[CHOOSE k \in 1..Len(WalkOrder) :
              /\ WalkOrder[k] \in todo
              /\ \A j \in 1..(k - 1) : WalkOrder[j] \notin todo]

\* Lines 179-203: the visit of the next entry; ok false: the walk hands the
\* function an error, which ends the walk.
ScanVisit(i, p, ok) ==
  /\ scans[i].pc = "visit"
  /\ scans[i].todo # {}
  /\ p = NextEntry(scans[i].todo)
  /\ IF ~ok
     THEN /\ scans' = [scans EXCEPT ![i] = [@ EXCEPT !.pc = "done", !.todo = {}]]
          /\ UNCHANGED tasks
     ELSE /\ scans' = [scans EXCEPT ![i] =
                [@ EXCEPT !.todo = @ \ {p},
                          !.visited = @ + 1,
                          !.nspawn = IF ScanWatches(p) THEN @ + 1 ELSE @,
                          !.pc = IF scans[i].todo = {p} THEN "done" ELSE "visit"]]
          /\ tasks' = IF ScanWatches(p) THEN Spawn(tasks, p) ELSE tasks
  /\ UNCHANGED <<watching, starts, entries, harvVars>>

\* The walk of an empty directory.
ScanEmpty(i) ==
  /\ scans[i].pc = "visit"
  /\ scans[i].todo = {}
  /\ scans' = [scans EXCEPT ![i] = [@ EXCEPT !.pc = "done"]]
  /\ UNCHANGED <<watching, starts, entries, tasks, harvVars>>

\* An entry appears under dirPath; every watcher that has the directory
\* registered and room for the event gets a Create event.
Notify(st, e) ==
  IF st.pc \in {"loop", "defer"} /\ "." \in st.reg /\ Len(st.q) < MaxEvents
  THEN [st EXCEPT !.q = Append(@, e)]
  ELSE st

CreateEntry(p) ==
  /\ p \notin entries
  /\ Cardinality(entries) < MaxEntries
  /\ entries' = entries \cup {p}
  /\ starts' = [i \in 1..Len(starts) |-> Notify(starts[i], [op |-> "Create", name |-> p])]
  /\ UNCHANGED <<watching, scans, tasks, harvVars>>

\* A file under dirPath is written to.
WriteEntry(p) ==
  /\ p \in entries
  /\ ~IsDir(p)
  /\ \E i \in 1..Len(starts) : Notify(starts[i], [op |-> "Write", name |-> p]) # starts[i]
  /\ starts' = [i \in 1..Len(starts) |-> Notify(starts[i], [op |-> "Write", name |-> p])]
  /\ UNCHANGED <<watching, scans, entries, tasks, harvVars>>

\* A Watch goroutine of path p ends.
WatchEnds(p) ==
  /\ tasks[p] > 0
  /\ tasks' = [tasks EXCEPT ![p] = @ - 1]
  /\ UNCHANGED <<watching, starts, scans, entries, harvVars>>

Next ==
  \/ StartCall
  \/ \E i \in 1..Len(starts), res \in {"ok", "create", "add", "walk", "addSub"} :
        StartSetup(i, res)
  \/ \E i \in 1..Len(starts) : StartEvent(i)
  \/ \E i \in 1..Len(starts), cause \in {"overflow", "other"} : StartError(i, cause)
  \/ \E i \in 1..Len(starts) : StartReset(i)
  \/ \E i \in 1..Len(starts) : StartReturn(i)
  \/ ScanCall
  \/ \E i \in 1..Len(scans) : ScanReadDir(i)
  \/ \E i \in 1..Len(scans), p \in Paths, ok \in BOOLEAN : ScanVisit(i, p, ok)
  \/ \E i \in 1..Len(scans) : ScanEmpty(i)
  \/ \E p \in Paths : CreateEntry(p)
  \/ \E p \in Paths : WriteEntry(p)
  \/ \E p \in Paths : WatchEnds(p)

\* The monitor after NewWatcher(), over a directory that holds any of the
\* entries.
MonInit ==
  /\ watching = 0
  /\ starts = <<>>
  /\ scans = <<>>
  /\ entries \in {S \in SUBSET Paths : Cardinality(S) <= MaxEntries}
  /\ tasks = [p \in Paths |-> 0]

\* The harvested file of SpecHarvest, not yet watched.
HarvIdle ==
  /\ file = <<>>
  /\ fileExists = TRUE
  /\ cursor = NoFile
  /\ removeAfterComplete = FALSE
  /\ hpc = "idle"
  /\ sc = NewScanner(0)
  /\ offset = 0
  /\ store = <<>>
  /\ blen = 0
  /\ batchCnt = 0
  /\ eofLine = FALSE
  /\ longTimeNoUpdate = FALSE
  /\ scanChan = <<>>
  /\ lpc = "idle"
  /\ synth = FALSE
  /\ fev = <<>>
  /\ received = <<>>
  /\ run = 0
  /\ hist = HistInit

\* A FileWatcher after NewWatcher(): no Start(), no Scan(), no Watch yet.
Init == MonInit /\ HarvIdle

Spec == Init /\ [][Next]_vars

\* The monitor of SpecHarvest: not started.
MonIdle ==
  /\ watching = 0
  /\ starts = <<>>
  /\ scans = <<>>
  /\ entries = {}
  /\ tasks = [p \in Paths |-> 0]

\* One file about to be harvested, the monitor left aside.
InitHarvest == MonIdle /\ HarvInit

SpecHarvest == InitHarvest /\ [][NextHarvest]_vars

\* The same, with the flag as NewWatcher() leaves it, and no cursor file or
\* the cursor an earlier Watch left inside the file.
InitRestart ==
  InitHarvest /\ removeAfterComplete = FALSE /\ cursor \in {NoFile, <<"2">>}

SpecRestart == InitRestart /\ [][NextRestart]_vars

\* The monitor and the Watch it starts for a.log while nobody receives from
\* ResChan: one Start() with the Scan() it launches, entries that appear, and
\* the Watch with its listener and the writer of a file of two bytes (a
\* line, two lines or the marker: enough for either send).  There is no
\* receive, so a send on ResChan (lines 278, 309) never completes.
MaxBlockedFileLen == 2

NextBackPressure ==
  \/ Len(starts) = 0 /\ StartCall
  \/ \E i \in 1..Len(starts) : StartSetup(i, "ok")
  \/ \E i \in 1..Len(starts) : StartEvent(i)
  \/ \E i \in 1..Len(scans) : ScanReadDir(i)
  \/ \E i \in 1..Len(scans), p \in Paths : ScanVisit(i, p, TRUE)
  \/ \E i \in 1..Len(scans) : ScanEmpty(i)
  \/ \E p \in Paths : CreateEntry(p)
  \/ \E b \in Byte : Len(file) < MaxBlockedFileLen /\ WriterAppend(b)
  \/ \E old \in BOOLEAN : tasks["a.log"] > 0 /\ WatchOpen(old)
  \/ WatchSignal
  \/ WatchScanLine
  \/ WatchTick
  \/ ListenerInit(TRUE)
  \/ \E injected \in BOOLEAN : ListenerEvent(injected)

SpecBackPressure == Init /\ [][NextBackPressure]_vars

\* ================================================================= claims
\* What the consumer holds of record r now: Content is a slice of batchLog's
\* backing array.
Content(r) == SubSeq(store, 1, r.n)

RECURSIVE Concat(_)
Concat(rs) == IF rs = <<>> THEN <<>> ELSE Head(rs).sent \o Concat(Tail(rs))

\* The records the current Watch delivered.
Delivered == SelectSeq(received, LAMBDA r : r.run = run)

\* File offset just after the last line of the last record the current
\* Watch delivered; its start offset when it delivered none.
DeliveredTo ==
  IF Delivered = <<>> THEN hist.startOff ELSE Delivered[Len(Delivered)].to

\* Byte b of the file (counted from 0) lies in a delivered record.
Covered(b) == \E i \in 1..Len(received) : received[i].from <= b /\ b < received[i].to

\* The Watch waits in its select with nothing left to read or to flush.
AllRead ==
  /\ hpc = "select"
  /\ blen = 0
  /\ sc.pos >= Len(file)

\* [from, to) is a line of the file equal to completeMarker, newline included.
MarkerLine(from, to) ==
  /\ from = 0 \/ file[from] = NL
  /\ to = from + Len(completeMarker) + 1
  /\ to <= Len(file)
  /\ SubSeq(file, from + 1, to) = Append(completeMarker, NL)

\* C1: at most one Watch goroutine is alive per path at any time.
C1_OneTaskPerPath == \A p \in Paths : tasks[p] <= 1

\* C2: the offset written to the cursor file is never greater than the file
\* offset just after the last line handed to the output queue.
C2_CursorNotAhead == hist.lastSaved <= DeliveredTo

\* File offset just after the last complete line of the file.
LinesEnd ==
  IF \E i \in 1..Len(file) : file[i] = NL
  THEN CHOOSE i \in 1..Len(file) : file[i] = NL /\ \A j \in (i + 1)..Len(file) : file[j] # NL
  ELSE 0

\* C3: after a stop and a second Watch that has read to the end of the
\* file, every byte of every complete line from the first Watch's start
\* offset on lies in a record delivered by one of the two.
C3_AtLeastOnce ==
  (run = 2 /\ fileExists /\ AllRead /\ hist.start1 >= 0)
    => \A b \in hist.start1..(LinesEnd - 1) : Covered(b)

\* C5: once the Watch has read past a line of the file equal to the marker
\* it has recognised the sentinel, and once it has flushed the sentinel its
\* last record has EOF = true and ends with the marker line.
C5_SentinelDetected ==
  /\ \A from \in 0..Len(file), to \in 0..Len(file) :
       (hpc \notin {"idle", "failed"} /\ MarkerLine(from, to)
          /\ hist.startOff <= from /\ to <= hist.lineEnd) => hist.sentinel
  /\ (hist.sentinel /\ hpc \in {"saveScan", "cleanup", "done"})
       => /\ Delivered # <<>>
          /\ LET r == Delivered[Len(Delivered)]
             IN  /\ r.EOF
                 /\ Len(r.sent) >= Len(completeMarker) + 1
                 /\ SubSeq(r.sent, Len(r.sent) - Len(completeMarker), Len(r.sent))
                      = Append(completeMarker, NL)

\* C6: after the sentinel's flush the file and its cursor file are deleted
\* when removeAfterComplete is set (unless a removal failed), and both are
\* left on disk when it is not set.
C6_RemoveOnlyWhenSet ==
  (hist.sentinel /\ hpc = "done")
    => IF removeAfterComplete
       THEN hist.removeFailed \/ (~fileExists /\ cursor = NoFile)
       ELSE fileExists /\ cursor # NoFile

\* C7: the content of a record the consumer received never changes: it is
\* what it was when the record was handed over.
C7_RecordImmutable == \A i \in 1..Len(Delivered) : Content(Delivered[i]) = Delivered[i].sent

\* C10: a Scan() made after an earlier Scan() returned starts no Watch.
C10_ScanIdempotent == \A i \in 1..Len(scans) : scans[i].later => scans[i].nspawn = 0

\* C8: at most one invocation of Start() is past the guard at any time, and
\* a Start() called while another one holds the flag returns nil at once,
\* creates no watcher and launches no Scan (the Scans Start() launched are
\* as many as the invocations that passed the guard).
C8_SingleFlight ==
  /\ Cardinality({i \in 1..Len(starts) : PastGuard(starts[i])}) <= 1
  /\ \A i \in 1..Len(starts) :
       starts[i].held =>
         /\ ~starts[i].passed
         /\ starts[i].pc = "returned"
         /\ starts[i].err = Nil
         /\ ~starts[i].made
         /\ starts[i].scan = 0
  /\ Cardinality({j \in 1..Len(scans) : ~scans[j].direct})
       = Cardinality({i \in 1..Len(starts) : starts[i].passed})

\* A Start() was rejected while another one runs the event loop.
C8_Witness ==
  \E i, j \in 1..Len(starts) :
    /\ starts[i].held /\ starts[i].pc = "returned" /\ ~starts[i].passed
    /\ starts[j].pc = "loop"

\* C9: a Start() that passed the guard and returned has returned an error
\* and has reset the flag; the flag is 1 only while an invocation holds it,
\* so a Start() called after the return passes the guard.
C9_ReturnResetsFlag ==
  /\ \A i \in 1..Len(starts) :
       (starts[i].passed /\ starts[i].pc = "returned")
         => starts[i].err # Nil /\ starts[i].swapped
  /\ (\A i \in 1..Len(starts) : ~HoldsFlag(starts[i])) => watching = 0

\* A Start() returned from the event loop with an error, and a later one
\* passed the guard.
C9_Witness ==
  /\ Len(starts) = 2
  /\ starts[1].passed /\ starts[1].pc = "returned" /\ starts[1].made
  /\ starts[1].err = Errorf("overflow")
  /\ starts[2].passed /\ ~starts[2].held

\* The content of a cursor file is a decimal integer: digits only.
DecimalCursor(c) == c # NoFile /\ c # <<>> /\ \A i \in 1..Len(c) : IsDigit(c[i])
CursorOffset(c) == IF DecimalCursor(c) THEN DecValue(c) ELSE 0

IsPrefix(a, b) == Len(a) <= Len(b) /\ SubSeq(b, 1, Len(a)) = a

\* s is made of complete lines.
CompleteLines(s) == s = <<>> \/ s[Len(s)] = NL

\* Of complete lines s, the lines up to and including the first one equal
\* to completeMarker; all of s when there is none.
RECURSIVE UpToSentinel(_)
UpToSentinel(s) ==
  IF s = <<>> THEN <<>>
  ELSE LET i == FirstNL(s)
       IN  IF SubSeq(s, 1, i - 1) = completeMarker THEN SubSeq(s, 1, i)
           ELSE SubSeq(s, 1, i) \o UpToSentinel(SubSeq(s, i + 1, Len(s)))

\* The Watch has flushed the sentinel's batch.
SentinelFlushed == hist.sentinel /\ hpc \in {"saveScan", "cleanup", "done"}

Streaming ==
  /\ hpc \in {"select", "scan", "sendScan", "sendTimer", "saveScan", "saveTimer"}
  /\ lpc \in {"init", "loop"}
  /\ ~hist.sentinel

\* The file holds bytes the Watch's file handle has not read.
Unread == sc.pos < Len(file)

\* A scan is on its way that reads to the end of the file: the running one
\* when its Scanner has not met the end of the file yet, or one that a Write
\* event or a signal still waiting will start.
ScanPending ==
  \/ hpc \in {"scan", "sendScan", "saveScan"} /\ ~sc.eof
  \/ lpc = "init"
  \/ synth
  \/ \E i \in 1..Len(fev) : fev[i] = "Write"
  \/ \E i \in 1..Len(scanChan) : scanChan[i]

\* No write signal is lost: unread bytes have a scan on its way.
NoSignalLost == (Streaming /\ Unread) => ScanPending

\* A flush-timer tick that finds a batch hands all of it over in a record
\* without EOF and leaves the batch empty.
TickEmits ==
  /\ (hpc = "select" /\ blen > 0 /\ hpc' # "select" /\ scanChan' = scanChan)
       => hpc' = "sendTimer"
  /\ (hpc = "sendTimer" /\ hpc' # "sendTimer")
       => /\ blen' = 0
          /\ Len(received') = Len(received) + 1
          /\ received'[Len(received')].sent = batchLog
          /\ ~received'[Len(received')].EOF

\* C11: while the Watch streams, no write signal is lost (bytes it has not
\* read have a scan on its way that reads them), and every flush-timer tick
\* that finds a batch emits it and leaves the batch empty.
C11_BoundedLatency ==
  /\ []NoSignalLost
  /\ [][TickEmits]_vars

\* One line, appended while the Watch ran and fewer than the threshold, was
\* emitted by a flush-timer tick.
C11_Witness ==
  /\ hpc = "saveTimer"
  /\ ~hist.sentinel
  /\ hist.appended
  /\ Delivered # <<>>
  /\ Delivered[Len(Delivered)].sent = <<"x", NL>>
  /\ ~Delivered[Len(Delivered)].EOF

\* C12: once the stall timeout has fired, the listener ends: its
\* scanChan <- false finds room, or the Watch is still there to make room.
\* (The Watch then receives the false and returns.)
C12_StallTerminates ==
  lpc = "falseTimeout" => (Len(scanChan) < 2 \/ hpc # "done")

\* C13: a Watch goroutine exists only for a path that matches the pattern,
\* is no directory and does not end in the cursor suffix, whether Scan()
\* or the loop of Start() started it.
C13_OnlyMatching ==
  /\ \A p \in Paths : tasks[p] > 0 => (Matches(p) /\ ~IsDir(p) /\ ~IsCursor(p))
  /\ \A i \in 1..Len(scans) :
       scans[i].nspawn > 0 => \E p \in entries : Matches(p) /\ ~IsDir(p) /\ ~IsCursor(p)

\* A Scan() has visited a cursor file that the pattern matches and the loop
\* of a Start() has taken its Create event; no Watch was started.
C13_Witness ==
  /\ entries = {"a.cursor"}
  /\ \E i \in 1..Len(scans) : scans[i].visited = 1 /\ scans[i].nspawn = 0
  /\ \E j \in 1..Len(starts) : starts[j].handled = 1 /\ starts[j].pc = "loop"
  /\ \A p \in Paths : tasks[p] = 0

\* The Watch is at a send on ResChan.
Sending == hpc \in {"sendScan", "sendTimer"}

C15_StallFlushes ==
  (hpc = "done" /\ hist.stalled /\ scanChan = <<>> /\ ~hist.sentinel
     /\ CompleteLines(file))
    => /\ blen = 0
       /\ hist.lineEnd > hist.startOff => hist.lastSaved = offset

\* C16: at every point of the writer's activity the records the Watch has
\* delivered are, byte for byte, the region of the file that starts at the
\* Watch's start offset, and every record ends with a newline of the file:
\* bytes not yet followed by a newline are not delivered.
C16_CompleteLinesOnly ==
  (hpc \notin {"idle", "failed"} /\ hist.startOff <= Len(file))
    => LET got == Concat(Delivered)
       IN  /\ hist.startOff + Len(got) <= Len(file)
           /\ got = SubSeq(file, hist.startOff + 1, hist.startOff + Len(got))
           /\ \A i \in 1..Len(Delivered) :
                /\ Delivered[i].to <= Len(file)
                /\ file[Delivered[i].to] = NL

\* C17: after the Watch wrote an offset to the cursor file, the file holds
\* exactly the decimal digits of the last offset written and readCursor
\* returns that offset.
C17_CursorRoundTrip ==
  (hist.lastSaved >= 0 /\ cursor # NoFile)
    => /\ cursor = FormatInt(hist.lastSaved)
       /\ readCursor(cursor) = hist.lastSaved

\* A write signal is on its way to the Watch.
WriteArriving ==
  \/ \E i \in 1..Len(fev) : fev[i] = "Write"
  \/ \E i \in 1..Len(scanChan) : scanChan[i]

\* C18: a Watch ends at a flush-timer tick (it returns without having taken
\* a false from scanChan) only when no write arrived since it opened the
\* file and none is arriving.
C18_OldFileStreams ==
  [][(hpc \in {"select", "saveTimer"} /\ hpc' = "done" /\ scanChan' = scanChan)
       => (~hist.appended /\ ~WriteArriving)]_vars

\* C19: a Start() whose loop ended on an event-queue overflow has, when it
\* has returned, launched a new Start() (the bound on invocations allowing):
\* an invocation follows it.
C19_OverflowRestarts ==
  \A i \in 1..Len(starts) :
    (starts[i].pc = "returned" /\ starts[i].err.cause = "overflow" /\ i < MaxStartCalls)
      => Len(starts) > i

\* C20: after the Watch has returned, a listener that is at one of its
\* scanChan <- false is not stuck there: the channel has room for the value,
\* and the listener returns and closes its watcher.
C20_ListenerNeverBlocks ==
  (hpc = "done" /\ lpc \in SendsFalse) => Len(scanChan) < 2
====
